---------------------------- MODULE Spec2Model ----------------------------
(***************************************************************************)
(* A model of the AlarmClock firmware (alarm-clock/src): the interrupt     *)
(* layer (millisecond counter, pin-change capture, changed flag), the      *)
(* rotary tracker, the TPIC6595 shift-register driver, the hours:minutes   *)
(* renderer and the boot sequence / main loop of main.rs.                  *)
(*                                                                         *)
(* Specifications:                                                         *)
(*   SpecMillis    interrupts.rs `mod millis`: the timer handler and the   *)
(*                 millis() reader.                                        *)
(*   Spec          interrupts.rs `mod rotary_encoder_and_snooze` and       *)
(*                 rotary_encoder.rs, the handler being run whenever its   *)
(*                 vector is taken.                                        *)
(*   SpecDriver    shift_register.rs, one driver and its callers.          *)
(*   SpecDisplay   time_display.rs, HoursMinutes::display and the shared   *)
(*                 DIGITS cell.                                            *)
(*   SpecFirmware  main.rs on the ATmega328P: boot, interrupt dispatch,    *)
(*                 main loop.  SpecFirmwareFair adds the fairness of a     *)
(*                 running CPU and a running timer.                        *)
(***************************************************************************)
EXTENDS Integers, Sequences, FiniteSets, TLC

(***************************************************************************)
(* Bounds of the model (not program constants).                            *)
(***************************************************************************)
\* Single timer ticks are explored this many ticks on each side of the
\* 32-bit wrap; the stretch in between is taken in one TimerRun step.
NearWrap == 4
\* Return values of changed_state() remembered since the last handler run.
MaxCalls == 3
\* Tracker queries remembered since the last update().
MaxQueries == 3
\* Lanes of the driver instance of SpecDriver (the const generic N).
Lanes == 8
\* HoursMinutes::display calls remembered in SpecDisplay.
MaxFrames == 6
\* Timer ticks per boot in SpecFirmware.
MaxBootTicks == 1
\* Runs of the capture handler followed in SpecRace.
MaxRuns == 2

(***************************************************************************)
(* Program constants.                                                      *)
(***************************************************************************)
PRESCALER == 1024
TIMER_COUNTS == 125
CPU_KHZ == 16000
MILLIS_INCREMENT == (PRESCALER * TIMER_COUNTS) \div CPU_KHZ

LOW == FALSE
HIGH == TRUE

VARIABLES
    \* ---- mod millis
    MILLIS_COUNTER,     \* Mutex<Cell<u32>>: 4 bytes, least significant first
    overflow_checks,    \* build profile: is `+` compiled with overflow checks
    panicked,           \* "none" or the panic that halted the firmware
    ticks,              \* history: TIMER0_COMPA firings since millis_init
    millis_read,        \* history: last millis() result and the ticks then
    \* ---- mod rotary_encoder_and_snooze
    CHANGED_STATE, SNOOZE_BUTTON, ROTARY_PIN_A, ROTARY_PIN_B, ROTARY_BUTTON,
    rotary_encoder,     \* RotaryEncoder { state: {a, b, button}, changed }
    irq_seen,           \* history: the capture handler has run
    cs_returns,         \* history: changed_state() results since the handler
    re_update,          \* history: what the last update() found
    re_queries,         \* history: queries since the last update()
    \* ---- shift_register.rs
    shift_register,     \* ShiftRegister<N> with the chip it drives
    sr_op,              \* history: the last driver operation
    \* ---- time_display.rs
    DIGITS,             \* Mutex<RefCell<TimeDigits>>
    hours_minutes,      \* HoursMinutes { shift_register, selected_digit, last_digit }
    hm_log,             \* history: digit states selected by display calls
    \* ---- main.rs / ATmega328P
    pc,                 \* position of main()
    sreg_i,             \* global interrupt enable
    pcicr, pcmsk,       \* pin-change control register, mask registers
    pcifr,              \* pending pin-change banks
    pins,               \* levels of the watched input pins
    state_digits,       \* State.digits
    seconds_display,    \* Seconds { shift_register }
    snooze_button,      \* SnoozeButton { state, changed }
    ocie0a,             \* TIMSK0.OCIE0A: the timer interrupt is enabled
    hm_frame,           \* history: parity of the HoursMinutes::display calls
    edge_log,           \* history: the last pin edge and what served it
    \* ---- the trackers in the main loop
    loop_pc,            \* next tracker call of the main loop
    snooze_irq,         \* history: the handler ran since snooze's last update()
    sb_update,          \* history: what snooze's last update() found
    sb_pressed,         \* history: pressed() results since that update()
    \* ---- code in progress, instruction by instruction
    millis_reader,      \* millis(): position, saved SREG, bytes read so far
    capture_run,        \* history: number of runs of the capture handler
    snooze_upd,         \* SnoozeButton::update: position, locals, and the
                        \* handler run each local was loaded from
    digits_step,        \* main loop's read_time/publish: position, the
                        \* digits read, saved SREG, DIGITS mutably borrowed
    digits_seen,        \* history: what the renderer's last read of DIGITS
                        \* found, and the digits it went on with
    \* ---- callers of the driver and of the renderer, step by step
    adapter_write,      \* update_idx: position, locals, saved SREG, and the
                        \* history of the whole-array writes that preempted it
    hm_pushed,          \* history: the last HoursMinutes::display call, the
                        \* fields and DIGITS it found, the pin states it
                        \* handed to the driver and the digit state it computed
    rtc_call            \* history: the last application of a function of
                        \* rtc.rs, its argument and what it computed

vars == << MILLIS_COUNTER, overflow_checks, panicked, ticks, millis_read,
           CHANGED_STATE, SNOOZE_BUTTON, ROTARY_PIN_A, ROTARY_PIN_B,
           ROTARY_BUTTON, rotary_encoder, irq_seen, cs_returns, re_update,
           re_queries, shift_register, sr_op, DIGITS, hours_minutes, hm_log,
           pc, sreg_i, pcicr, pcmsk, pcifr, pins, state_digits,
           seconds_display, snooze_button, ocie0a, hm_frame, edge_log,
           loop_pc, snooze_irq, sb_update, sb_pressed, millis_reader,
           capture_run, snooze_upd, digits_step, digits_seen,
           adapter_write, hm_pushed, rtc_call >>

callerVars == << adapter_write, hm_pushed, rtc_call >>
loopVars == << loop_pc, snooze_irq, sb_update, sb_pressed >>
stepVars == << millis_reader, capture_run, snooze_upd, digits_step,
              digits_seen >>
millisVars == << MILLIS_COUNTER, ticks, millis_read >>
captureVars == << CHANGED_STATE, SNOOZE_BUTTON, ROTARY_PIN_A, ROTARY_PIN_B,
                  ROTARY_BUTTON >>
trackerVars == << rotary_encoder, irq_seen, cs_returns, re_update, re_queries >>
driverVars == << shift_register, sr_op >>
displayVars == << DIGITS, hours_minutes, hm_log, hm_frame >>
boardVars == << pc, sreg_i, pcicr, pcmsk, pcifr, pins, state_digits,
                seconds_display, snooze_button, ocie0a, edge_log >>

(***************************************************************************)
(* u32 arithmetic, on 4 bytes (least significant first).                   *)
(***************************************************************************)
U32Zero == << 0, 0, 0, 0 >>

\* x + y for two u32 values: the 32-bit sum and the carry out of bit 31.
U32Add(x, y) ==
    LET s1 == x[1] + y[1]
        s2 == x[2] + y[2] + (s1 \div 256)
        s3 == x[3] + y[3] + (s2 \div 256)
        s4 == x[4] + y[4] + (s3 \div 256)
    IN  [ value |-> << s1 % 256, s2 % 256, s3 % 256, s4 % 256 >>,
          carry |-> s4 \div 256 > 0 ]

\* The u32 of a small number n (0 <= n < 2^16).
U32Of(n) == << n % 256, n \div 256, 0, 0 >>

\* (n * k) mod 2^32 for 0 <= n < 2^31 and 0 <= k < 2^8, by 8-bit limbs of n.
U32Times(n, k) ==
    LET p1 == (n % 256) * k
        p2 == ((n \div 256) % 256) * k + (p1 \div 256)
        p3 == ((n \div 65536) % 256) * k + (p2 \div 256)
        p4 == ((n \div 16777216) % 256) * k + (p3 \div 256)
    IN  << p1 % 256, p2 % 256, p3 % 256, p4 % 256 >>

\* Timer firings that take the counter from 0 around to 0 again.
TicksToWrap == (65536 \div MILLIS_INCREMENT) * 65536

(***************************************************************************)
(* interrupts.rs, mod millis                                               *)
(***************************************************************************)
\* `counter + MILLIS_INCREMENT` on u32: with overflow checks the addition
\* panics when it overflows, without them it wraps.
CounterPlusIncrement(counter, checks) ==
    LET sum == U32Add(counter, U32Of(MILLIS_INCREMENT))
    IN  IF sum.carry /\ checks
        THEN [ value |-> counter, panic |-> "attempt to add with overflow" ]
        ELSE [ value |-> sum.value, panic |-> "none" ]

\* The counter is within NearWrap ticks of the wrap (on either side).
NearTheWrap(counter) ==
    \E k \in 0 .. NearWrap :
        \/ counter = U32Times(k, MILLIS_INCREMENT)
        \/ counter = U32Times(TicksToWrap - k, MILLIS_INCREMENT)

\* millis_init: resets the global millisecond counter.
millis_init ==
    /\ MILLIS_COUNTER' = U32Zero
    /\ ticks' = 0

\* One firing of the TIMER0_COMPA handler.
TIMER0_COMPA ==
    /\ panicked = "none"
    /\ ticks < TicksToWrap + NearWrap
    /\ NearTheWrap(MILLIS_COUNTER)
    /\ LET r == CounterPlusIncrement(MILLIS_COUNTER, overflow_checks)
       IN  /\ MILLIS_COUNTER' = r.value
           /\ panicked' = r.panic
    /\ ticks' = ticks + 1
    /\ UNCHANGED << millis_read, overflow_checks >>

\* TicksToWrap - 2 * NearWrap firings in a row, none of which overflows:
\* the sum of their increments is added in one step.
TimerRun ==
    LET n == TicksToWrap - 2 * NearWrap
        sum == U32Add(MILLIS_COUNTER, U32Times(n, MILLIS_INCREMENT))
    IN  /\ panicked = "none"
        /\ MILLIS_COUNTER = U32Times(NearWrap, MILLIS_INCREMENT)
        /\ ticks + n < TicksToWrap + NearWrap
        /\ ~sum.carry
        /\ MILLIS_COUNTER' = sum.value
        /\ ticks' = ticks + n
        /\ UNCHANGED << millis_read, overflow_checks, panicked >>

\* millis(): reads the counter inside interrupt::free.
millis ==
    /\ panicked = "none"
    /\ millis_read' = [ value |-> MILLIS_COUNTER, ticks |-> ticks ]
    /\ UNCHANGED << MILLIS_COUNTER, ticks, overflow_checks, panicked >>


(***************************************************************************)
(* interrupts.rs, mod rotary_encoder_and_snooze                            *)
(***************************************************************************)
PinNames == { "d13", "a0", "d12", "d11" }
PinLevels == [ PinNames -> BOOLEAN ]

\* The PCINT2 handler: sets the changed flag, then stores the four levels
\* sampled from the pins (the buttons are tied to ground: pressed = low).
PCINT2Stores(levels) ==
    /\ CHANGED_STATE' = TRUE
    /\ ROTARY_PIN_A' = (levels["d13"] = HIGH)
    /\ ROTARY_PIN_B' = (levels["a0"] = HIGH)
    /\ ROTARY_BUTTON' = (levels["d12"] = LOW)
    /\ SNOOZE_BUTTON' = (levels["d11"] = LOW)

\* get_rotary_encoder_state
get_rotary_encoder_state ==
    [ a |-> ROTARY_PIN_A, b |-> ROTARY_PIN_B, button |-> ROTARY_BUTTON ]

\* get_snooze_button_pressed
get_snooze_button_pressed == SNOOZE_BUTTON

\* changed_state on a flag value: the value returned and the flag left.
ChangedStateKeepsFlag(flag) == [ ret |-> flag, flag |-> flag ]
changed_state(flag) ==
    IF flag THEN [ ret |-> TRUE, flag |-> FALSE ]
            ELSE [ ret |-> FALSE, flag |-> flag ]

\* History of a changed_state() call.
CsRecord(before, r) == [ before |-> before, ret |-> r.ret, after |-> r.flag ]

(***************************************************************************)
(* rotary_encoder.rs                                                       *)
(***************************************************************************)
RotaryEncoderNew ==
    [ state |-> [ a |-> FALSE, b |-> FALSE, button |-> FALSE ],
      changed |-> FALSE ]

\* RotaryEncoder::update, given the result of its changed_state() call.
RotaryEncoderUpdated(self, state, cs) ==
    [ state |-> state,
      changed |-> cs.ret /\ ( \/ self.state.a # state.a
                              \/ self.state.b # state.b
                              \/ self.state.button # state.button ) ]

\* RotaryEncoder::rotated_clockwise: the value returned and the tracker left.
RotatedClockwiseKeepsChanged(self) ==
    [ ret |-> self.changed /\ (self.state.a # self.state.b), self |-> self ]
rotated_clockwise(self) ==
    [ ret |-> self.changed /\ (self.state.a # self.state.b),
      self |-> [ self EXCEPT !.changed = FALSE ] ]

\* RotaryEncoder::button
ButtonKeepsChanged(self) ==
    [ ret |-> self.changed /\ self.state.button, self |-> self ]
button(self) ==
    [ ret |-> self.changed /\ self.state.button,
      self |-> [ self EXCEPT !.changed = FALSE ] ]

(***************************************************************************)
(* Spec: the capture handler, changed_state() and the rotary tracker.      *)
(***************************************************************************)
othersOfSpec == << millisVars, overflow_checks, panicked, driverVars,
                   displayVars, boardVars, loopVars, stepVars,
                     callerVars >>

\* The handler runs (its vector was taken) and samples the pins.
PCINT2 ==
    \E levels \in PinLevels :
        /\ PCINT2Stores(levels)
        /\ irq_seen' = TRUE
        /\ cs_returns' = << >>
        /\ UNCHANGED << rotary_encoder, re_update, re_queries, othersOfSpec >>

\* A caller polls changed_state() directly.
ChangedStateCall ==
    /\ Len(cs_returns) < MaxCalls
    /\ LET r == changed_state(CHANGED_STATE)
       IN  /\ CHANGED_STATE' = r.flag
           /\ cs_returns' = Append(cs_returns, CsRecord(CHANGED_STATE, r))
    /\ UNCHANGED << SNOOZE_BUTTON, ROTARY_PIN_A, ROTARY_PIN_B, ROTARY_BUTTON,
                    rotary_encoder, irq_seen, re_update, re_queries,
                    othersOfSpec >>

\* rotary_encoder.update(critical_section)
RotaryEncoderUpdate ==
    /\ Len(cs_returns) < MaxCalls
    /\ LET state == get_rotary_encoder_state
           r == changed_state(CHANGED_STATE)
       IN  /\ CHANGED_STATE' = r.flag
           /\ rotary_encoder' = RotaryEncoderUpdated(rotary_encoder, state, r)
           /\ cs_returns' = Append(cs_returns, CsRecord(CHANGED_STATE, r))
           /\ re_update' = [ called |-> TRUE,
                             flag |-> CHANGED_STATE,
                             differ |-> rotary_encoder.state # state,
                             lines_differ |->
                                 \/ rotary_encoder.state.a # state.a
                                 \/ rotary_encoder.state.b # state.b ]
    /\ re_queries' = << >>
    /\ UNCHANGED << SNOOZE_BUTTON, ROTARY_PIN_A, ROTARY_PIN_B, ROTARY_BUTTON,
                    irq_seen, othersOfSpec >>

\* rotary_encoder.rotated_clockwise()
RotatedClockwiseCall ==
    /\ Len(re_queries) < MaxQueries
    /\ LET r == rotated_clockwise(rotary_encoder)
       IN  /\ rotary_encoder' = r.self
           /\ re_queries' = Append(re_queries,
                                   [ op |-> "rotated_clockwise", ret |-> r.ret ])
    /\ UNCHANGED << captureVars, irq_seen, cs_returns, re_update, othersOfSpec >>

\* rotary_encoder.button()
ButtonCall ==
    /\ Len(re_queries) < MaxQueries
    /\ LET r == button(rotary_encoder)
       IN  /\ rotary_encoder' = r.self
           /\ re_queries' = Append(re_queries, [ op |-> "button", ret |-> r.ret ])
    /\ UNCHANGED << captureVars, irq_seen, cs_returns, re_update, othersOfSpec >>


(***************************************************************************)
(* shift_register.rs.  A driver value carries the struct's fields, the     *)
(* chip on its three wires (shift stage and latched outputs of the         *)
(* TPIC6595 chain) and the history of the wires during the operation in    *)
(* progress: the bits the chip clocked in, and for each latch pulse the    *)
(* number of bits clocked in before it.                                    *)
(***************************************************************************)
Reverse(s) == [ i \in 1 .. Len(s) |-> s[Len(s) + 1 - i] ]
AllLow(n) == [ i \in 1 .. n |-> LOW ]
NoPanic == "none"
BorrowMutError == "already borrowed: BorrowMutError"

\* ShiftRegister::new
ShiftRegisterNew(n) ==
    [ serial_input_pin |-> LOW, clock_pin |-> LOW, latch_pin |-> LOW,
      is_latched |-> FALSE,
      current_shifted_bit |-> 0,
      bit_array |-> AllLow(n),
      stage |-> AllLow(n), outputs |-> AllLow(n),
      shifted |-> << >>, latch_at |-> << >>, wires |-> << >>,
      panic |-> NoPanic ]

\* A new operation starts: the history of the wires is emptied.
Begin(m) ==
    [ m EXCEPT !.shifted = << >>, !.latch_at = << >>, !.wires = << >> ]

\* serial_input_pin.set_high() / set_low()
SerialWrite(m, level) ==
    [ m EXCEPT !.serial_input_pin = level,
               !.wires = Append(@, << "serial", level >>) ]

\* clock_pin.set_high() / set_low(): on the rising edge the chip shifts the
\* serial line into its first stage.
ClockWrite(m, level) ==
    IF level = HIGH /\ m.clock_pin = LOW
    THEN [ m EXCEPT !.clock_pin = HIGH,
                    !.stage = << m.serial_input_pin >>
                              \o SubSeq(m.stage, 1, Len(m.stage) - 1),
                    !.shifted = Append(@, m.serial_input_pin),
                    !.wires = Append(@, << "clock", level >>) ]
    ELSE [ m EXCEPT !.clock_pin = level,
                    !.wires = Append(@, << "clock", level >>) ]

\* latch_pin.set_high() / set_low(): on the rising edge the chip copies its
\* shift stage to its outputs.
LatchWrite(m, level) ==
    IF level = HIGH /\ m.latch_pin = LOW
    THEN [ m EXCEPT !.latch_pin = HIGH,
                    !.outputs = m.stage,
                    !.latch_at = Append(@, Len(m.shifted)),
                    !.wires = Append(@, << "latch", level >>) ]
    ELSE [ m EXCEPT !.latch_pin = level,
                    !.wires = Append(@, << "latch", level >>) ]

\* RefCell::borrow_mut succeeds only while no Ref of the cell is alive.
BorrowMutOk(shared) == shared = 0

\* Refs of current_shifted_bit alive when shift_out calls replace() on it:
\* `replace(*self.current_shifted_bit.borrow() + 1)` creates a Ref in the
\* argument, a temporary that lives to the end of the statement.
CounterRefsAtReplace == 1

\* ShiftRegister::latch; ba_shared counts the Refs of bit_array the caller
\* holds.
latch(m, ba_shared) ==
    LET m1 == [ m EXCEPT !.is_latched = TRUE ]
        m2 == LatchWrite(m1, HIGH)
        m3 == LatchWrite(m2, LOW)
    IN  IF ~BorrowMutOk(ba_shared)
        THEN [ m3 EXCEPT !.panic = BorrowMutError ]
        ELSE [ m3 EXCEPT !.bit_array = AllLow(Len(m3.bit_array)),
                         !.current_shifted_bit = 0 ]

\* ShiftRegister::shift_out
ShiftOutLowersSerialEarly(m, state, update_bit_array, ba_shared) ==
    LET m1 == SerialWrite(m, state)
        m2 == SerialWrite(m1, LOW)
        m3 == ClockWrite(m2, HIGH)
        m4 == ClockWrite(m3, LOW)
    IN  [ m4 EXCEPT !.panic = BorrowMutError ]
shift_out(m, state, update_bit_array, ba_shared) ==
    LET m1 == SerialWrite(m, state)
        m2 == ClockWrite(m1, HIGH)
        m3 == SerialWrite(m2, LOW)
        m4 == ClockWrite(m3, LOW)
        m5 == [ m4 EXCEPT !.current_shifted_bit = @ + 1 ]
    IN  IF ~BorrowMutOk(CounterRefsAtReplace)
        THEN [ m4 EXCEPT !.panic = BorrowMutError ]
        ELSE IF m5.current_shifted_bit = Len(m5.bit_array)
        THEN latch(m5, ba_shared)
        ELSE IF ~update_bit_array
        THEN m5
        ELSE IF ~BorrowMutOk(ba_shared)
        THEN [ m5 EXCEPT !.panic = BorrowMutError ]
        ELSE [ m5 EXCEPT !.bit_array = << state >>
                                       \o SubSeq(@, 1, Len(m5.bit_array) - 1),
                         !.is_latched = FALSE ]

\* `for state in bits { self.shift_out(*state, cs, false) }`; a panic ends it.
RECURSIVE ShiftOutAll(_, _, _)
ShiftOutAll(m, bits, ba_shared) ==
    IF bits = << >> \/ m.panic # NoPanic
    THEN m
    ELSE ShiftOutAll(shift_out(m, Head(bits), FALSE, ba_shared), Tail(bits),
                     ba_shared)

\* ShiftRegister::set_bit_array
set_bit_array(m, bit_array) ==
    LET m1 == ShiftOutAll(m, Reverse(bit_array), 0)
    IN  IF m1.panic # NoPanic THEN m1
        ELSE [ m1 EXCEPT !.bit_array = bit_array ]

\* ShiftRegisterInternal::update_idx (pin_idx counts from 0): the loop holds
\* a Ref of bit_array while it shifts.
update_idx(m, pin_idx, pin_state) ==
    LET m1 == [ m EXCEPT !.bit_array[pin_idx + 1] = pin_state ]
        old_shifted_bit == m1.current_shifted_bit
        m2 == [ m1 EXCEPT !.current_shifted_bit = 0 ]
        m3 == ShiftOutAll(m2, Reverse(m2.bit_array), 1)
    IN  IF m3.panic # NoPanic THEN m3
        ELSE [ m3 EXCEPT !.current_shifted_bit = old_shifted_bit,
                         !.is_latched = FALSE ]

\* History of a driver operation: what was asked, and whether it returned.
SrOp(op, values, idx, m) ==
    [ op |-> op, values |-> values, idx |-> idx,
      returned |-> m.panic = NoPanic ]


(***************************************************************************)
(* shared.rs, rtc.rs: TimeDigits and the digits RTC::read_time extracts.   *)
(***************************************************************************)
TimeDigitsDefault ==
    [ hours |-> << 0, 0 >>, minutes |-> << 0, 0 >>, seconds |-> << 0, 0 >> ]

\* Register images the PCF8523 answers a time read with (seconds, minutes,
\* hours, day, weekday, month, year; the seconds' bit 7 is a status flag),
\* such as 12:34:56 or 23:59:07 with the flag set.
RtcBuffers ==
    { << sec, min, hr, 1, 0, 1, 35 >> :
        sec \in { 0, 86, 135 }, min \in { 0, 7, 21, 52, 72, 89 },
        hr \in { 5, 18, 35 } }

\* The digits RTC::read_time stores for a buffer read from the chip.
ReadTimeDigits(time_buffer) ==
    LET b0 == time_buffer[1] % 128
    IN  [ hours |-> << time_buffer[3] \div 16, time_buffer[3] % 16 >>,
          seconds |-> << b0 \div 16, b0 % 16 >>,
          minutes |-> << time_buffer[2] \div 16, time_buffer[2] % 16 >> ]

\* RTC::read_time on the caller's TimeDigits: result is "None" on a bus
\* error, which leaves the digits alone.
ReadTimeWithoutShift(time_digits, bus) ==
    IF bus.ok
    THEN [ hours |-> << bus.buffer[3], bus.buffer[3] % 16 >>,
           seconds |-> << bus.buffer[1] % 128, bus.buffer[1] % 16 >>,
           minutes |-> << bus.buffer[2], bus.buffer[2] % 16 >> ]
    ELSE time_digits
ReadTimeKeepsSeconds(time_digits, bus) ==
    IF bus.ok
    THEN [ ReadTimeDigits(bus.buffer) EXCEPT !.seconds = time_digits.seconds ]
    ELSE time_digits
read_time(time_digits, bus) ==
    IF bus.ok THEN ReadTimeDigits(bus.buffer) ELSE time_digits

RtcDigits == { ReadTimeDigits(b) : b \in RtcBuffers }

(***************************************************************************)
(* time_display.rs                                                         *)
(***************************************************************************)
Bit(x, i) == (x \div (2 ^ i)) % 2
BitOr(x, y) ==
    LET bit(i) == IF Bit(x, i) = 1 \/ Bit(y, i) = 1 THEN 2 ^ i ELSE 0
    IN  bit(0) + bit(1) + bit(2) + bit(3) + bit(4) + bit(5) + bit(6) + bit(7)

\* rtc.rs: fn bcd_decode(x: u8) -> u8
BcdDecodeTensTimesSixteen(x) == ((((x \div 16) * 16) % 256) + (x % 16)) % 256
bcd_decode(x) == ((((x \div 16) * 10) % 256) + (x % 16)) % 256

\* The failed assert!(x < 100) of bcd_encode.
AssertFailed == "assertion failed: x < 100"

\* The while loop of bcd_encode: one decimal digit per round into the next
\* nibble of res.
RECURSIVE BcdEncodeLoop(_, _, _)
BcdEncodeLoop(x, shift, res) ==
    IF x > 0
    THEN BcdEncodeLoop(x \div 10, (shift + 1) % 256,
                       BitOr(res, ((x % 10) * 2 ^ ((shift * 4) % 256)) % 256))
    ELSE res

\* rtc.rs: fn bcd_encode(mut x: u8) -> u8; the result, or the panic of its
\* assert.
bcd_encode(x) ==
    IF x < 100 THEN [ panic |-> NoPanic, res |-> BcdEncodeLoop(x, 0, 0) ]
    ELSE [ panic |-> AssertFailed, res |-> 0 ]

\* enum DigitSelect
DP == 2 ^ 0
Hour1 == 2 ^ 1
Hour2 == 2 ^ 2
Minute1 == 2 ^ 3
Minute2 == 2 ^ 4
DigitSelect == { DP, Hour1, Hour2, Minute1, Minute2 }

\* A..G pin states for the digits 0..F and the blank (index 0x10).
SevenSegmentOutputSevenWithBar ==
    [ d \in 1 .. 17 |->
        IF d = 8 THEN << HIGH, HIGH, HIGH, LOW, LOW, LOW, HIGH >>
        ELSE IF d = 17 THEN << LOW, LOW, LOW, LOW, LOW, LOW, LOW >>
        ELSE << HIGH, HIGH, HIGH, HIGH, HIGH, HIGH, HIGH >> ]
SEVEN_SEGMENT_OUTPUT ==
    << << HIGH, HIGH, HIGH, HIGH, HIGH, HIGH, LOW >>,
       << LOW, HIGH, HIGH, LOW, LOW, LOW, LOW >>,
       << HIGH, HIGH, LOW, HIGH, HIGH, LOW, HIGH >>,
       << HIGH, HIGH, HIGH, HIGH, LOW, LOW, HIGH >>,
       << LOW, HIGH, HIGH, LOW, LOW, HIGH, HIGH >>,
       << HIGH, LOW, HIGH, HIGH, LOW, HIGH, HIGH >>,
       << HIGH, LOW, HIGH, HIGH, HIGH, HIGH, HIGH >>,
       << HIGH, HIGH, HIGH, LOW, LOW, LOW, LOW >>,
       << HIGH, HIGH, HIGH, HIGH, HIGH, HIGH, HIGH >>,
       << HIGH, HIGH, HIGH, HIGH, LOW, HIGH, HIGH >>,
       << HIGH, HIGH, HIGH, LOW, HIGH, HIGH, HIGH >>,
       << HIGH, HIGH, HIGH, HIGH, HIGH, HIGH, HIGH >>,
       << HIGH, LOW, LOW, HIGH, HIGH, HIGH, LOW >>,
       << HIGH, HIGH, HIGH, HIGH, HIGH, HIGH, LOW >>,
       << HIGH, LOW, LOW, HIGH, HIGH, HIGH, HIGH >>,
       << HIGH, LOW, LOW, LOW, HIGH, HIGH, HIGH >>,
       << LOW, LOW, LOW, LOW, LOW, LOW, LOW >> >>

\* HoursMinutes::new
HoursMinutesNew ==
    [ shift_register |-> ShiftRegisterNew(16),
      selected_digit |-> DP,
      last_digit |-> TimeDigitsDefault ]

\* The digit HoursMinutes::display looks up for the selected position.
SelectedDigitValueOnesFirst(bitwise_digit, hours, minutes) ==
    hours[2] * Bit(bitwise_digit, 1) + hours[1] * Bit(bitwise_digit, 2)
    + minutes[2] * Bit(bitwise_digit, 3) + minutes[1] * Bit(bitwise_digit, 4)
SelectedDigitValue(bitwise_digit, hours, minutes) ==
    hours[1] * Bit(bitwise_digit, 1) + hours[2] * Bit(bitwise_digit, 2)
    + minutes[1] * Bit(bitwise_digit, 3) + minutes[2] * Bit(bitwise_digit, 4)

\* The 16 pin states HoursMinutes::display pushes.
HoursMinutesPinStatesSelectHigh(selected_digit, hours, minutes) ==
    [ i \in 1 .. 16 |-> IF i <= 5 THEN Bit(selected_digit, i - 1) # 0
                        ELSE LOW ]
HoursMinutesPinStates(selected_digit, hours, minutes) ==
    LET bitwise_digit == selected_digit
        selected_digit_pin_states ==
            [ i \in 1 .. 5 |-> Bit(bitwise_digit, i - 1) # 0 ]
        dp_pin_states ==
            IF selected_digit = DP THEN << LOW, LOW, HIGH, LOW >>
                                   ELSE << LOW, LOW, LOW, LOW >>
        segment_pin_states ==
            IF selected_digit = DP THEN AllLow(7)
            ELSE SEVEN_SEGMENT_OUTPUT[
                     SelectedDigitValue(bitwise_digit, hours, minutes) + 1]
    IN  << ~selected_digit_pin_states[1], ~selected_digit_pin_states[2],
           ~selected_digit_pin_states[3], ~selected_digit_pin_states[4],
           ~selected_digit_pin_states[5],
           dp_pin_states[1], dp_pin_states[2], dp_pin_states[3],
           dp_pin_states[4],
           segment_pin_states[6], segment_pin_states[7],
           segment_pin_states[1], segment_pin_states[2],
           segment_pin_states[3], segment_pin_states[4],
           segment_pin_states[5] >>

\* The rotate-right at the end of HoursMinutes::display (u8 arithmetic).
RotateRightNoWrap(bitwise_digit) == bitwise_digit \div 2
RotateRight5(bitwise_digit) ==
    BitOr(bitwise_digit \div 2, ((bitwise_digit * 16) % 256) % 32)

\* HoursMinutes::display; shared is the result of DIGITS.try_borrow().
\* A panic of the driver ends the call where it happens.
display(self, shared) ==
    LET from_shared == shared.ok
        hours == IF from_shared THEN shared.digits.hours
                 ELSE self.last_digit.hours
        minutes == IF from_shared THEN shared.digits.minutes
                   ELSE self.last_digit.minutes
        last_digit == IF self.selected_digit = DP THEN self.last_digit
                      ELSE [ self.last_digit EXCEPT !.hours = hours,
                                                    !.minutes = minutes ]
        pin_states == HoursMinutesPinStates(self.selected_digit, hours, minutes)
        sr == set_bit_array(Begin(self.shift_register), pin_states)
    IN  IF sr.panic # NoPanic
        THEN [ self EXCEPT !.shift_register = sr, !.last_digit = last_digit ]
        ELSE [ shift_register |-> sr,
               selected_digit |-> RotateRight5(self.selected_digit),
               last_digit |-> last_digit ]

\* Seconds::new
SecondsNew == [ shift_register |-> ShiftRegisterNew(16) ]

\* Seconds::display
SecondsDisplay(self, digits) ==
    LET digit_1_output == SEVEN_SEGMENT_OUTPUT[digits.seconds[1] + 1]
        digit_2_output == SEVEN_SEGMENT_OUTPUT[digits.seconds[2] + 1]
        pin_states ==
            << digit_1_output[7], digit_1_output[6], digit_1_output[1],
               digit_1_output[2], digit_1_output[5], digit_1_output[4],
               digit_1_output[3], LOW,
               digit_2_output[7], digit_2_output[6], digit_2_output[1],
               digit_2_output[2], LOW, digit_2_output[4],
               digit_2_output[3], digit_2_output[5] >>
    IN  [ self EXCEPT !.shift_register =
                         set_bit_array(Begin(self.shift_register), pin_states) ]


(***************************************************************************)
(* snooze_button.rs                                                        *)
(***************************************************************************)
SnoozeButtonNew == [ state |-> FALSE, changed |-> FALSE ]

\* SnoozeButton::update, given the result of its changed_state() call.
SnoozeButtonUpdated(self, state, cs) ==
    [ state |-> state, changed |-> cs.ret /\ (self.state # state) ]

\* SnoozeButton::pressed: the value returned and the tracker left.
pressed(self) ==
    [ ret |-> self.changed /\ self.state,
      self |-> [ self EXCEPT !.changed = FALSE ] ]

(***************************************************************************)
(* pins.rs and the ATmega328P pin-change unit: the bank (mask register,    *)
(* enable bit and vector number) and the mask bit of each watched pin.     *)
(* d13 = PB5 = PCINT5, d12 = PB4 = PCINT4, d11 = PB3 = PCINT3,             *)
(* a0 = PC0 = PCINT8.                                                      *)
(***************************************************************************)
Banks == 0 .. 2
PinBank(p) == IF p = "a0" THEN 1 ELSE 0
PinBit(p) == CASE p = "d13" -> 5 [] p = "d12" -> 4 [] p = "d11" -> 3
               [] p = "a0" -> 0

\* The vector the capture handler is installed on: PCINT2.
HandlerVector == 2

\* rotary_encoder_init on the registers [pcicr, pcmsk0] (sets of bits).
RotaryEncoderInitUnmasksExtraBit(regs) ==
    [ pcicr |-> regs.pcicr \cup { 0, 1 }, pcmsk0 |-> regs.pcmsk0 \cup { 0, 4, 5 } ]
rotary_encoder_init(regs) ==
    [ pcicr |-> regs.pcicr \cup { 0 }, pcmsk0 |-> regs.pcmsk0 \cup { 4, 5 } ]

\* snooze_button_init
snooze_button_init(regs) ==
    [ pcicr |-> regs.pcicr \cup { 0 }, pcmsk0 |-> regs.pcmsk0 \cup { 3 } ]

\* The mask bits set, as (bank, bit) pairs.
Unmasked == { bb \in Banks \X (0 .. 7) : bb[2] \in pcmsk[bb[1]] }

(***************************************************************************)
(* Initial states.                                                         *)
(***************************************************************************)
InitProgram ==
    /\ MILLIS_COUNTER = U32Zero
    /\ panicked = NoPanic
    /\ ticks = 0
    /\ millis_read = [ value |-> U32Zero, ticks |-> 0 ]
    /\ CHANGED_STATE = FALSE
    /\ SNOOZE_BUTTON = FALSE
    /\ ROTARY_PIN_A = FALSE
    /\ ROTARY_PIN_B = FALSE
    /\ ROTARY_BUTTON = FALSE
    /\ rotary_encoder = RotaryEncoderNew
    /\ snooze_button = SnoozeButtonNew
    /\ irq_seen = FALSE
    /\ cs_returns = << >>
    /\ re_update = [ called |-> FALSE, flag |-> FALSE, differ |-> FALSE,
                     lines_differ |-> FALSE ]
    /\ re_queries = << >>
    /\ shift_register = ShiftRegisterNew(Lanes)
    /\ sr_op = [ op |-> "none", values |-> << >>, idx |-> 0, returned |-> TRUE ]
    /\ DIGITS = TimeDigitsDefault
    /\ hours_minutes = HoursMinutesNew
    /\ hm_log = << >>
    /\ hm_frame = FALSE
    /\ state_digits = TimeDigitsDefault
    /\ seconds_display = SecondsNew
    /\ loop_pc = "rotary_update"
    /\ snooze_irq = FALSE
    /\ sb_update = [ called |-> FALSE, irq |-> FALSE, differ |-> FALSE ]
    /\ sb_pressed = << >>
    /\ millis_reader = [ pc |-> "idle", saved |-> FALSE, bytes |-> << >>,
                         from |-> 0, done |-> FALSE ]
    /\ capture_run = 0
    /\ snooze_upd = [ pc |-> "idle", state |-> FALSE, flag |-> FALSE,
                      state_run |-> 0, flag_run |-> 0, done |-> FALSE ]
    /\ digits_step = [ pc |-> "read_time", result |-> TimeDigitsDefault,
                       ok |-> FALSE, saved |-> FALSE, borrowed |-> FALSE ]
    /\ digits_seen = [ read |-> FALSE, borrowed |-> FALSE,
                       digits |-> TimeDigitsDefault ]
    /\ adapter_write = [ pc |-> "store", pin_idx |-> 0, shifts |-> 0,
                         old_shifted_bit |-> 0, saved |-> FALSE,
                         preempted |-> 0, torn |-> FALSE ]
    /\ hm_pushed = [ called |-> FALSE, selected_digit |-> DP,
                     borrowed |-> FALSE, digits |-> TimeDigitsDefault,
                     last_digit |-> TimeDigitsDefault, pin_states |-> << >>,
                     new_bitwise_digit |-> DP ]
    /\ rtc_call = [ op |-> "none", x |-> 0, mid |-> 0, res |-> 0 ]

\* The chip after reset: interrupts off, pin-change unit cleared; the
\* inputs are pulled up.
InitBoard ==
    /\ pc = "millis_init"
    /\ sreg_i = FALSE
    /\ ocie0a = FALSE
    /\ pcicr = { }
    /\ pcmsk = [ b \in Banks |-> { } ]
    /\ pcifr = { }
    /\ pins = [ p \in PinNames |-> HIGH ]
    /\ edge_log = [ pin |-> "none", unmasked |-> FALSE, served |-> "none",
                    flag |-> FALSE, stored |-> << >> ]

Init == InitProgram /\ InitBoard /\ overflow_checks = FALSE

Next == PCINT2 \/ ChangedStateCall \/ RotaryEncoderUpdate
        \/ RotatedClockwiseCall \/ ButtonCall

Spec == Init /\ [][Next]_vars

(***************************************************************************)
(* SpecMillis: the timer handler and millis(), in either build profile.    *)
(***************************************************************************)
othersOfMillis == << captureVars, trackerVars, driverVars, displayVars,
                     boardVars, loopVars, stepVars,
                     callerVars >>

InitMillis == InitProgram /\ InitBoard /\ overflow_checks \in BOOLEAN

TimerFires == TIMER0_COMPA /\ UNCHANGED othersOfMillis
TimerRuns == TimerRun /\ UNCHANGED othersOfMillis
MillisCall == millis /\ UNCHANGED othersOfMillis

NextMillis == TimerFires \/ TimerRuns \/ MillisCall

SpecMillis == InitMillis /\ [][NextMillis]_vars


(***************************************************************************)
(* SpecDriver: one Lanes-wide driver and the operations its callers can    *)
(* perform; a panic halts the firmware.                                    *)
(***************************************************************************)
othersOfDriver == << millisVars, overflow_checks, captureVars, trackerVars,
                     displayVars, boardVars, loopVars, stepVars,
                     callerVars >>

BitArrays == [ 1 .. Lanes -> BOOLEAN ]

\* shift_register.shift_out(state, cs, update_bit_array)
ShiftOutCall ==
    \E state \in BOOLEAN, update_bit_array \in BOOLEAN :
        LET m == shift_out(Begin(shift_register), state, update_bit_array, 0)
        IN  /\ panicked = NoPanic
            /\ shift_register' = m
            /\ panicked' = m.panic
            /\ sr_op' = SrOp("shift_out", << state >>, 0, m)
            /\ UNCHANGED othersOfDriver

\* shift_register.latch()
LatchCall ==
    LET m == latch(Begin(shift_register), 0)
    IN  /\ panicked = NoPanic
        /\ shift_register' = m
        /\ panicked' = m.panic
        /\ sr_op' = SrOp("latch", << >>, 0, m)
        /\ UNCHANGED othersOfDriver

\* shift_register.set_bit_array(bit_array, cs)
SetBitArrayCall ==
    \E bit_array \in BitArrays :
        LET m == set_bit_array(Begin(shift_register), bit_array)
        IN  /\ panicked = NoPanic
            /\ shift_register' = m
            /\ panicked' = m.panic
            /\ sr_op' = SrOp("set_bit_array", bit_array, 0, m)
            /\ UNCHANGED othersOfDriver

\* FakePin::set_high / set_low on the adapter of lane idx: update_idx; the
\* history keeps the image the write asks for.
FakePinWrite ==
    \E idx \in 0 .. Lanes - 1, pin_state \in BOOLEAN :
        LET m == update_idx(Begin(shift_register), idx, pin_state)
        IN  /\ panicked = NoPanic
            /\ shift_register' = m
            /\ panicked' = m.panic
            /\ sr_op' = SrOp("update_idx",
                             [ shift_register.bit_array
                                 EXCEPT ![idx + 1] = pin_state ], idx, m)
            /\ UNCHANGED othersOfDriver

NextDriver == ShiftOutCall \/ LatchCall \/ SetBitArrayCall \/ FakePinWrite

SpecDriver == Init /\ [][NextDriver]_vars

(***************************************************************************)
(* SpecDisplay: the main loop publishes digits to DIGITS and               *)
(* HoursMinutes::display is called on the shared renderer.                 *)
(***************************************************************************)
othersOfDisplay == << millisVars, overflow_checks, captureVars, trackerVars,
                      driverVars, boardVars, loopVars, stepVars,
                     callerVars >>

\* main.rs: DIGITS.borrow(cs).replace(state.digits.clone())
PublishDigits ==
    \E digits \in RtcDigits :
        /\ panicked = NoPanic
        /\ DIGITS' = digits
        /\ UNCHANGED << hours_minutes, hm_log, hm_frame, panicked,
                        othersOfDisplay >>

\* HoursMinutes::display(critical_section); DIGITS is not borrowed.
HoursMinutesDisplay ==
    LET hm == display(hours_minutes, [ ok |-> TRUE, digits |-> DIGITS ])
    IN  /\ panicked = NoPanic
        /\ Len(hm_log) < MaxFrames
        /\ hours_minutes' = hm
        /\ panicked' = hm.shift_register.panic
        /\ hm_log' = Append(hm_log, hours_minutes.selected_digit)
        /\ hm_frame' = ~hm_frame
        /\ UNCHANGED << DIGITS, othersOfDisplay >>

NextDisplay == PublishDigits \/ HoursMinutesDisplay

SpecDisplay == Init /\ [][NextDisplay]_vars

(***************************************************************************)
(* SpecFirmware: main.rs on the chip.  main() runs step by step; the       *)
(* timer and pin-change interrupts are taken between its steps while the   *)
(* global interrupt flag is set.  A vector with no handler installed runs  *)
(* the runtime's default, which restarts the program.  A panic halts the   *)
(* firmware with interrupts off.                                           *)
(***************************************************************************)
othersOfFirmware == << millis_read, irq_seen, cs_returns, re_update,
                       re_queries, driverVars, hours_minutes, hm_log,
                       hm_frame, overflow_checks, loopVars, stepVars,
                     callerVars >>

\* Results of the I2C write_read of RTC::read_time: a bus error, or the
\* register image of 12:34:56.
BusResults ==
    { [ ok |-> FALSE, buffer |-> << >> ] }
    \cup { [ ok |-> TRUE, buffer |-> b ] :
               b \in { r \in RtcBuffers : r[1] = 86 /\ r[2] = 52 /\ r[3] = 18 } }

\* char::from_digit(d, 10).unwrap() of the main loop's LCD output.
AllDecimal(digits) ==
    \A k \in 1 .. 2 :
        digits.hours[k] < 10 /\ digits.minutes[k] < 10 /\ digits.seconds[k] < 10

\* main(): interrupts::millis_init(peripherals.TC0)
MainMillisInit ==
    /\ panicked = NoPanic /\ pc = "millis_init"
    /\ ocie0a' = TRUE
    /\ millis_init
    /\ pc' = "rotary_encoder_init"
    /\ UNCHANGED << panicked, captureVars, rotary_encoder, snooze_button,
                    DIGITS, sreg_i, pcicr, pcmsk, pcifr, pins, state_digits,
                    seconds_display, edge_log, othersOfFirmware >>

\* main(): interrupts::rotary_encoder_init(pcicr, pcmsk0, a, button)
MainRotaryEncoderInit ==
    /\ panicked = NoPanic /\ pc = "rotary_encoder_init"
    /\ LET regs == rotary_encoder_init([ pcicr |-> pcicr, pcmsk0 |-> pcmsk[0] ])
       IN  /\ pcicr' = regs.pcicr
           /\ pcmsk' = [ pcmsk EXCEPT ![0] = regs.pcmsk0 ]
    /\ pc' = "snooze_button_init"
    /\ UNCHANGED << panicked, MILLIS_COUNTER, ticks, captureVars,
                    rotary_encoder, snooze_button, DIGITS, sreg_i, ocie0a,
                    pcifr, pins, state_digits, seconds_display, edge_log,
                    othersOfFirmware >>

\* main(): interrupts::snooze_button_init(pcicr, pcmsk0, button)
MainSnoozeButtonInit ==
    /\ panicked = NoPanic /\ pc = "snooze_button_init"
    /\ LET regs == snooze_button_init([ pcicr |-> pcicr, pcmsk0 |-> pcmsk[0] ])
       IN  /\ pcicr' = regs.pcicr
           /\ pcmsk' = [ pcmsk EXCEPT ![0] = regs.pcmsk0 ]
    /\ pc' = "interrupt_enable"
    /\ UNCHANGED << panicked, MILLIS_COUNTER, ticks, captureVars,
                    rotary_encoder, snooze_button, DIGITS, sreg_i, ocie0a,
                    pcifr, pins, state_digits, seconds_display, edge_log,
                    othersOfFirmware >>

\* main(): avr_device::interrupt::enable()
MainInterruptEnable ==
    /\ panicked = NoPanic /\ pc = "interrupt_enable"
    /\ sreg_i' = TRUE
    /\ pc' = "setup"
    /\ UNCHANGED << panicked, MILLIS_COUNTER, ticks, captureVars,
                    rotary_encoder, snooze_button, DIGITS, ocie0a, pcicr,
                    pcmsk, pcifr, pins, state_digits, seconds_display,
                    edge_log, othersOfFirmware >>

\* main(): RTC, displays, LCD and trackers are constructed, the time is set.
MainSetup ==
    /\ panicked = NoPanic /\ pc = "setup"
    /\ pc' = "read_time"
    /\ UNCHANGED << panicked, MILLIS_COUNTER, ticks, captureVars,
                    rotary_encoder, snooze_button, DIGITS, sreg_i, ocie0a,
                    pcicr, pcmsk, pcifr, pins, state_digits, seconds_display,
                    edge_log, othersOfFirmware >>

\* main loop: rtc.read_time(&mut state.digits)
MainReadTime ==
    \E bus \in BusResults :
        /\ panicked = NoPanic /\ pc = "read_time"
        /\ state_digits' = read_time(state_digits, bus)
        /\ pc' = "publish_digits"
        /\ UNCHANGED << panicked, MILLIS_COUNTER, ticks, captureVars,
                        rotary_encoder, snooze_button, DIGITS, sreg_i, ocie0a,
                        pcicr, pcmsk, pcifr, pins, seconds_display, edge_log,
                        othersOfFirmware >>

\* main loop: DIGITS.borrow(cs).replace(state.digits.clone())
MainPublishDigits ==
    /\ panicked = NoPanic /\ pc = "publish_digits"
    /\ DIGITS' = state_digits
    /\ pc' = "lcd_print"
    /\ UNCHANGED << panicked, MILLIS_COUNTER, ticks, captureVars,
                    rotary_encoder, snooze_button, sreg_i, ocie0a, pcicr,
                    pcmsk, pcifr, pins, state_digits, seconds_display,
                    edge_log, othersOfFirmware >>

\* main loop: the character LCD output
MainLcdPrint ==
    /\ panicked = NoPanic /\ pc = "lcd_print"
    /\ IF AllDecimal(state_digits)
       THEN pc' = "rotary_update" /\ UNCHANGED panicked
       ELSE panicked' = "called Option::unwrap() on a None value"
            /\ UNCHANGED pc
    /\ UNCHANGED << MILLIS_COUNTER, ticks, captureVars, rotary_encoder,
                    snooze_button, DIGITS, sreg_i, ocie0a, pcicr, pcmsk,
                    pcifr, pins, state_digits, seconds_display, edge_log,
                    othersOfFirmware >>

\* main loop: rotary_encoder.update()
MainRotaryUpdate ==
    /\ panicked = NoPanic /\ pc = "rotary_update"
    /\ LET r == changed_state(CHANGED_STATE)
       IN  /\ CHANGED_STATE' = r.flag
           /\ rotary_encoder' = RotaryEncoderUpdated(rotary_encoder,
                                                     get_rotary_encoder_state, r)
    /\ pc' = "snooze_update"
    /\ UNCHANGED << panicked, MILLIS_COUNTER, ticks, SNOOZE_BUTTON,
                    ROTARY_PIN_A, ROTARY_PIN_B, ROTARY_BUTTON, snooze_button,
                    DIGITS, sreg_i, ocie0a, pcicr, pcmsk, pcifr, pins,
                    state_digits, seconds_display, edge_log, othersOfFirmware >>

\* main loop: snooze_button.update()
MainSnoozeUpdate ==
    /\ panicked = NoPanic /\ pc = "snooze_update"
    /\ LET r == changed_state(CHANGED_STATE)
       IN  /\ CHANGED_STATE' = r.flag
           /\ snooze_button' = SnoozeButtonUpdated(snooze_button,
                                                   get_snooze_button_pressed, r)
    /\ pc' = "seconds_display"
    /\ UNCHANGED << panicked, MILLIS_COUNTER, ticks, SNOOZE_BUTTON,
                    ROTARY_PIN_A, ROTARY_PIN_B, ROTARY_BUTTON, rotary_encoder,
                    DIGITS, sreg_i, ocie0a, pcicr, pcmsk, pcifr, pins,
                    state_digits, seconds_display, edge_log, othersOfFirmware >>

\* main loop: seconds_display.display(&state), then the next iteration
MainSecondsDisplay ==
    LET sd == SecondsDisplay(seconds_display, state_digits)
    IN  /\ panicked = NoPanic /\ pc = "seconds_display"
        /\ seconds_display' = sd
        /\ panicked' = sd.shift_register.panic
        /\ pc' = IF sd.shift_register.panic = NoPanic THEN "read_time" ELSE pc
        /\ UNCHANGED << MILLIS_COUNTER, ticks, captureVars, rotary_encoder,
                        snooze_button, DIGITS, sreg_i, ocie0a, pcicr, pcmsk,
                        pcifr, pins, state_digits, edge_log, othersOfFirmware >>

MainStep ==
    \/ MainMillisInit \/ MainRotaryEncoderInit \/ MainSnoozeButtonInit
    \/ MainInterruptEnable \/ MainSetup \/ MainReadTime \/ MainPublishDigits
    \/ MainLcdPrint \/ MainRotaryUpdate \/ MainSnoozeUpdate
    \/ MainSecondsDisplay

\* The timer interrupt is taken: TIMER0_COMPA runs.
TimerInterrupt ==
    /\ sreg_i /\ ocie0a
    /\ ticks < MaxBootTicks
    /\ TIMER0_COMPA
    /\ UNCHANGED << captureVars, trackerVars, driverVars, displayVars,
                    boardVars, loopVars, stepVars,
                     callerVars >>

\* A watched input changes level; a pin whose mask bit is set raises the
\* pin-change flag of its bank.
PinEdge ==
    \E p \in PinNames :
        /\ panicked = NoPanic
        /\ pins' = [ pins EXCEPT ![p] = ~@ ]
        /\ pcifr' = IF PinBit(p) \in pcmsk[PinBank(p)]
                    THEN pcifr \cup { PinBank(p) } ELSE pcifr
        /\ edge_log' = [ pin |-> p,
                         unmasked |-> PinBit(p) \in pcmsk[PinBank(p)],
                         served |-> "pending", flag |-> FALSE,
                         stored |-> << >> ]
        /\ UNCHANGED << panicked, MILLIS_COUNTER, ticks, captureVars,
                        rotary_encoder, snooze_button, DIGITS, pc, sreg_i,
                        ocie0a, pcicr, pcmsk, state_digits, seconds_display,
                        othersOfFirmware >>

\* A pending, enabled pin-change interrupt is taken.  Bank HandlerVector
\* runs the capture handler; the vector of any other bank has no handler
\* and restarts the program (statics and main's locals are initialised
\* again, the peripheral registers keep their values).
PinChangeInterrupt ==
    \E bank \in pcifr \cap pcicr :
        /\ panicked = NoPanic /\ sreg_i
        /\ pcifr' = pcifr \ { bank }
        /\ IF bank = HandlerVector
           THEN /\ PCINT2Stores(pins)
                /\ edge_log' = [ edge_log EXCEPT
                                   !.served = "PCINT2",
                                   !.flag = TRUE,
                                   !.stored = << pins["d13"] = HIGH,
                                                 pins["a0"] = HIGH,
                                                 pins["d12"] = LOW,
                                                 pins["d11"] = LOW >> ]
                /\ UNCHANGED << MILLIS_COUNTER, ticks, rotary_encoder,
                                snooze_button, DIGITS, pc, sreg_i,
                                state_digits, seconds_display >>
           ELSE /\ edge_log' = [ edge_log EXCEPT !.served = "__bad_interrupt" ]
                /\ pc' = "millis_init"
                /\ sreg_i' = FALSE
                /\ MILLIS_COUNTER' = U32Zero
                /\ ticks' = 0
                /\ CHANGED_STATE' = FALSE
                /\ SNOOZE_BUTTON' = FALSE
                /\ ROTARY_PIN_A' = FALSE
                /\ ROTARY_PIN_B' = FALSE
                /\ ROTARY_BUTTON' = FALSE
                /\ rotary_encoder' = RotaryEncoderNew
                /\ snooze_button' = SnoozeButtonNew
                /\ DIGITS' = TimeDigitsDefault
                /\ state_digits' = TimeDigitsDefault
                /\ seconds_display' = SecondsNew
        /\ UNCHANGED << panicked, ocie0a, pcicr, pcmsk, pins, othersOfFirmware >>

NextFirmware == MainStep \/ TimerInterrupt \/ PinEdge \/ PinChangeInterrupt

SpecFirmware == Init /\ [][NextFirmware]_vars

\* The CPU keeps executing main() and takes pending interrupts; the timer
\* keeps firing.
SpecFirmwareFair ==
    /\ SpecFirmware
    /\ WF_vars(MainStep)
    /\ WF_vars(TimerInterrupt)
    /\ WF_vars(PinChangeInterrupt)

(***************************************************************************)
(* SpecLoop: the two trackers as the main loop calls them (rotary update,  *)
(* then snooze update, main.rs:214-215), with the capture handler running  *)
(* between the calls.                                                      *)
(***************************************************************************)
othersOfLoop == << millisVars, overflow_checks, panicked, irq_seen,
                   cs_returns, re_update, re_queries, driverVars,
                   displayVars, pc, sreg_i, pcicr, pcmsk, pcifr, pins,
                   state_digits, seconds_display, ocie0a, edge_log,
                   stepVars, callerVars >>

\* The capture handler runs between two calls of the main loop.
LoopCapture ==
    \E levels \in PinLevels :
        /\ PCINT2Stores(levels)
        /\ snooze_irq' = TRUE
        /\ UNCHANGED << rotary_encoder, snooze_button, loop_pc, sb_update,
                        sb_pressed, othersOfLoop >>

\* main loop: rotary_encoder.update()
LoopRotaryUpdate ==
    /\ loop_pc = "rotary_update"
    /\ LET r == changed_state(CHANGED_STATE)
       IN  /\ CHANGED_STATE' = r.flag
           /\ rotary_encoder' = RotaryEncoderUpdated(rotary_encoder,
                                                     get_rotary_encoder_state, r)
    /\ loop_pc' = "snooze_update"
    /\ UNCHANGED << SNOOZE_BUTTON, ROTARY_PIN_A, ROTARY_PIN_B, ROTARY_BUTTON,
                    snooze_button, snooze_irq, sb_update, sb_pressed,
                    othersOfLoop >>

\* main loop: snooze_button.update()
LoopSnoozeUpdate ==
    /\ loop_pc = "snooze_update"
    /\ LET r == changed_state(CHANGED_STATE)
       IN  /\ CHANGED_STATE' = r.flag
           /\ snooze_button' = SnoozeButtonUpdated(snooze_button,
                                                   get_snooze_button_pressed, r)
    /\ sb_update' = [ called |-> TRUE, irq |-> snooze_irq,
                      differ |-> snooze_button.state # get_snooze_button_pressed ]
    /\ snooze_irq' = FALSE
    /\ sb_pressed' = << >>
    /\ loop_pc' = "rotary_update"
    /\ UNCHANGED << SNOOZE_BUTTON, ROTARY_PIN_A, ROTARY_PIN_B, ROTARY_BUTTON,
                    rotary_encoder, othersOfLoop >>

\* snooze_button.pressed()
SnoozePressedCall ==
    /\ sb_update.called
    /\ Len(sb_pressed) < MaxQueries
    /\ LET r == pressed(snooze_button)
       IN  /\ snooze_button' = r.self
           /\ sb_pressed' = Append(sb_pressed, r.ret)
    /\ UNCHANGED << captureVars, rotary_encoder, loop_pc, snooze_irq,
                    sb_update, othersOfLoop >>

NextLoop ==
    LoopCapture \/ LoopRotaryUpdate \/ LoopSnoozeUpdate \/ SnoozePressedCall

SpecLoop == Init /\ [][NextLoop]_vars

(***************************************************************************)
(* SpecMillisRead: millis() on the 8-bit core, one byte load at a time,    *)
(* against the timer interrupt.  interrupt::free saves SREG, clears the    *)
(* global interrupt flag, runs the closure and restores SREG.              *)
(***************************************************************************)
\* The chip once main() has run its initialisation and enabled interrupts.
InitRunning ==
    LET regs == snooze_button_init(
                    rotary_encoder_init([ pcicr |-> { }, pcmsk0 |-> { } ]))
    IN  /\ InitProgram
        /\ pc = "read_time"
        /\ sreg_i = TRUE
        /\ ocie0a = TRUE
        /\ pcicr = regs.pcicr
        /\ pcmsk = [ b \in Banks |-> IF b = 0 THEN regs.pcmsk0 ELSE { } ]
        /\ pcifr = { }
        /\ pins = [ p \in PinNames |-> HIGH ]
        /\ edge_log = [ pin |-> "none", unmasked |-> FALSE, served |-> "none",
                        flag |-> FALSE, stored |-> << >> ]

\* The global interrupt flag while the closure of interrupt::free runs.
InterruptFreeLeavesFlag(sreg) == sreg
interrupt_free(sreg) == FALSE

othersOfReader == << MILLIS_COUNTER, ticks, overflow_checks, panicked,
                     captureVars, trackerVars, driverVars, displayVars,
                     loopVars, pc, pcicr, pcmsk, pcifr, pins, state_digits,
                     seconds_display, snooze_button, ocie0a, edge_log,
                     capture_run, snooze_upd, digits_step, digits_seen,
                     callerVars >>

\* millis(): interrupt::free is entered.
MillisEnter ==
    /\ panicked = NoPanic
    /\ millis_reader.pc = "idle"
    /\ millis_reader' = [ pc |-> "get", saved |-> sreg_i, bytes |-> << >>,
                          from |-> ticks, done |-> FALSE ]
    /\ sreg_i' = interrupt_free(sreg_i)
    /\ UNCHANGED << millis_read, othersOfReader >>

\* millis(): Cell::get loads the next byte of the counter.
MillisLoadByte ==
    /\ panicked = NoPanic
    /\ millis_reader.pc = "get"
    /\ Len(millis_reader.bytes) < 4
    /\ millis_reader' =
           [ millis_reader EXCEPT
               !.bytes = Append(@, MILLIS_COUNTER[Len(@) + 1]) ]
    /\ UNCHANGED << millis_read, sreg_i, othersOfReader >>

\* millis(): interrupt::free restores SREG and the value is returned.
MillisReturn ==
    /\ panicked = NoPanic
    /\ millis_reader.pc = "get"
    /\ Len(millis_reader.bytes) = 4
    /\ sreg_i' = millis_reader.saved
    /\ millis_read' = [ value |-> millis_reader.bytes, ticks |-> ticks ]
    /\ millis_reader' = [ millis_reader EXCEPT !.pc = "idle", !.done = TRUE ]
    /\ UNCHANGED othersOfReader

\* The timer interrupt is taken between two instructions.
ReaderTimerFires ==
    /\ sreg_i /\ ocie0a
    /\ TIMER0_COMPA
    /\ UNCHANGED othersOfMillis

ReaderTimerRuns ==
    /\ sreg_i /\ ocie0a
    /\ millis_reader.pc = "idle"
    /\ TimerRun
    /\ UNCHANGED othersOfMillis

NextMillisRead ==
    \/ MillisEnter \/ MillisLoadByte \/ MillisReturn
    \/ ReaderTimerFires \/ ReaderTimerRuns

InitMillisRead == InitRunning /\ overflow_checks \in BOOLEAN

SpecMillisRead == InitMillisRead /\ [][NextMillisRead]_vars

(***************************************************************************)
(* SpecRace: the tracker updates of the main loop against the capture      *)
(* handler.  RotaryEncoder::update takes a CriticalSection, so its caller  *)
(* has interrupts off and it runs in one step.  SnoozeButton::update takes *)
(* and holds none: it runs load by load, and the handler can run between   *)
(* any two of its loads and stores.                                        *)
(***************************************************************************)
othersOfRace == << millisVars, overflow_checks, panicked, irq_seen,
                   cs_returns, re_update, re_queries, driverVars,
                   displayVars, pc, sreg_i, pcicr, pcmsk, pcifr, pins,
                   state_digits, seconds_display, ocie0a, edge_log,
                   snooze_irq, sb_update, sb_pressed, millis_reader,
                   digits_step, digits_seen, callerVars >>

\* The capture handler runs.
RaceCapture ==
    \E levels \in PinLevels :
        /\ capture_run < MaxRuns
        /\ PCINT2Stores(levels)
        /\ capture_run' = capture_run + 1
        /\ UNCHANGED << rotary_encoder, snooze_button, loop_pc, snooze_upd,
                        othersOfRace >>

\* main loop: rotary_encoder.update(), inside its caller's critical section
RaceRotaryUpdate ==
    /\ snooze_upd.pc = "idle"
    /\ LoopRotaryUpdate

\* snooze_button.update(): let state = get_snooze_button_pressed()
SnoozeLoadState ==
    /\ loop_pc = "snooze_update"
    /\ snooze_upd.pc = "idle"
    /\ snooze_upd' = [ pc |-> "load_flag", state |-> get_snooze_button_pressed,
                       flag |-> FALSE, state_run |-> capture_run,
                       flag_run |-> 0, done |-> FALSE ]
    /\ UNCHANGED << captureVars, capture_run, rotary_encoder, snooze_button,
                    loop_pc, othersOfRace >>

\* changed_state(): CHANGED_STATE.load(SeqCst)
SnoozeLoadFlag ==
    /\ snooze_upd.pc = "load_flag"
    /\ snooze_upd' = [ snooze_upd EXCEPT !.pc = "store_flag",
                                         !.flag = CHANGED_STATE,
                                         !.flag_run = capture_run ]
    /\ UNCHANGED << captureVars, capture_run, rotary_encoder, snooze_button,
                    loop_pc, othersOfRace >>

\* changed_state(): CHANGED_STATE.store(false, SeqCst) when the load was true
SnoozeStoreFlag ==
    /\ snooze_upd.pc = "store_flag"
    /\ CHANGED_STATE' = IF snooze_upd.flag THEN FALSE ELSE CHANGED_STATE
    /\ snooze_upd' = [ snooze_upd EXCEPT !.pc = "assign" ]
    /\ UNCHANGED << SNOOZE_BUTTON, ROTARY_PIN_A, ROTARY_PIN_B, ROTARY_BUTTON,
                    capture_run, rotary_encoder, snooze_button, loop_pc,
                    othersOfRace >>

\* snooze_button.update(): self.changed = ..; self.state = state
SnoozeAssign ==
    /\ snooze_upd.pc = "assign"
    /\ snooze_button' =
           SnoozeButtonUpdated(snooze_button, snooze_upd.state,
                               [ ret |-> snooze_upd.flag, flag |-> FALSE ])
    /\ snooze_upd' = [ snooze_upd EXCEPT !.pc = "idle", !.done = TRUE ]
    /\ loop_pc' = "rotary_update"
    /\ UNCHANGED << captureVars, capture_run, rotary_encoder, othersOfRace >>

NextRace ==
    \/ RaceCapture \/ RaceRotaryUpdate
    \/ SnoozeLoadState \/ SnoozeLoadFlag \/ SnoozeStoreFlag \/ SnoozeAssign

SpecRace == Init /\ [][NextRace]_vars

(***************************************************************************)
(* SpecDigits: the main loop's read_time and publish steps, store by       *)
(* store, against a renderer that reads DIGITS from interrupt context      *)
(* (HoursMinutes::display takes a CriticalSection by value).               *)
(***************************************************************************)
\* Register images of 12:34:56 and of 23:59:07 with the status flag set:
\* no digit pair of one equals the pair of the other or of the default.
DigitsBuffers ==
    { b \in RtcBuffers :
        << b[1], b[2], b[3] >> \in { << 86, 52, 18 >>, << 135, 89, 35 >> } }

DigitsBusResults ==
    { [ ok |-> FALSE, buffer |-> << >> ] }
    \cup { [ ok |-> TRUE, buffer |-> b ] : b \in DigitsBuffers }

othersOfDigits == << millisVars, overflow_checks, panicked, captureVars,
                     trackerVars, driverVars, hours_minutes, hm_log, hm_frame,
                     pc, pcicr, pcmsk, pcifr, pins, seconds_display,
                     snooze_button, ocie0a, edge_log, loopVars, millis_reader,
                     capture_run, snooze_upd, callerVars >>

\* rtc.read_time(&mut state.digits): the bus transfer and the decoding
DigitsReadTime ==
    \E bus \in DigitsBusResults :
        /\ digits_step.pc = "read_time"
        /\ digits_step' = [ digits_step EXCEPT
                              !.pc = IF bus.ok THEN "write_hours" ELSE "enter",
                              !.ok = bus.ok,
                              !.result = read_time(state_digits, bus) ]
        /\ UNCHANGED << state_digits, DIGITS, sreg_i, digits_seen,
                        othersOfDigits >>

\* read_time: time_digits.hours = ..; .seconds = ..; .minutes = ..
DigitsWriteField ==
    /\ digits_step.pc \in { "write_hours", "write_seconds", "write_minutes" }
    /\ state_digits' =
           CASE digits_step.pc = "write_hours" ->
                    [ state_digits EXCEPT !.hours = digits_step.result.hours ]
             [] digits_step.pc = "write_seconds" ->
                    [ state_digits EXCEPT !.seconds = digits_step.result.seconds ]
             [] digits_step.pc = "write_minutes" ->
                    [ state_digits EXCEPT !.minutes = digits_step.result.minutes ]
    /\ digits_step' =
           [ digits_step EXCEPT
               !.pc = CASE digits_step.pc = "write_hours" -> "write_seconds"
                        [] digits_step.pc = "write_seconds" -> "write_minutes"
                        [] digits_step.pc = "write_minutes" -> "enter" ]
    /\ UNCHANGED << DIGITS, sreg_i, digits_seen, othersOfDigits >>

\* main loop: interrupt::free is entered
DigitsEnter ==
    /\ digits_step.pc = "enter"
    /\ digits_step' = [ digits_step EXCEPT !.pc = "copy_hours",
                                           !.saved = sreg_i ]
    /\ sreg_i' = interrupt_free(sreg_i)
    /\ UNCHANGED << state_digits, DIGITS, digits_seen, othersOfDigits >>

\* main loop: DIGITS.replace(state.digits.clone()), a mutable borrow of the
\* RefCell held over the copy of the three digit pairs
DigitsReplace ==
    /\ digits_step.pc \in { "copy_hours", "copy_minutes", "copy_seconds" }
    /\ DIGITS' =
           CASE digits_step.pc = "copy_hours" ->
                    [ DIGITS EXCEPT !.hours = state_digits.hours ]
             [] digits_step.pc = "copy_minutes" ->
                    [ DIGITS EXCEPT !.minutes = state_digits.minutes ]
             [] digits_step.pc = "copy_seconds" ->
                    [ DIGITS EXCEPT !.seconds = state_digits.seconds ]
    /\ digits_step' =
           [ digits_step EXCEPT
               !.borrowed = digits_step.pc # "copy_seconds",
               !.pc = CASE digits_step.pc = "copy_hours" -> "copy_minutes"
                        [] digits_step.pc = "copy_minutes" -> "copy_seconds"
                        [] digits_step.pc = "copy_seconds" -> "exit" ]
    /\ UNCHANGED << state_digits, sreg_i, digits_seen, othersOfDigits >>

\* main loop: interrupt::free restores SREG; the next iteration follows
DigitsExit ==
    /\ digits_step.pc = "exit"
    /\ sreg_i' = digits_step.saved
    /\ digits_step' = [ digits_step EXCEPT !.pc = "read_time" ]
    /\ UNCHANGED << state_digits, DIGITS, digits_seen, othersOfDigits >>

\* HoursMinutes::display in an interrupt: DIGITS.try_borrow(), or the last
\* digits when the RefCell is mutably borrowed
RendererReadsDigits ==
    /\ sreg_i
    /\ digits_seen' =
           [ read |-> TRUE,
             borrowed |-> digits_step.borrowed,
             digits |-> IF digits_step.borrowed THEN digits_seen.digits
                        ELSE DIGITS ]
    /\ UNCHANGED << state_digits, DIGITS, sreg_i, digits_step,
                    othersOfDigits >>

NextDigits ==
    \/ DigitsReadTime \/ DigitsWriteField \/ DigitsEnter \/ DigitsReplace
    \/ DigitsExit \/ RendererReadsDigits

InitDigits == InitRunning /\ overflow_checks = FALSE

SpecDigits == InitDigits /\ [][NextDigits]_vars

(***************************************************************************)
(* SpecPreempt: a single-bit adapter write (update_idx) in the main        *)
(* context, statement by statement and one shift_out at a time, against    *)
(* an interrupt handler that writes a whole array to the same driver.  A   *)
(* handler runs with interrupts off, from start to end.                    *)
(***************************************************************************)
othersOfPreempt == << millisVars, overflow_checks, captureVars, trackerVars,
                      displayVars, pc, pcicr, pcmsk, pcifr, pins,
                      state_digits, seconds_display, snooze_button, ocie0a,
                      edge_log, loopVars, stepVars, hm_pushed, rtc_call >>

\* The next statement of update_idx(pin_idx, pin_state).
AdapterWriteStep ==
    LET aw == adapter_write
        n == Len(shift_register.bit_array)
    IN  /\ panicked = NoPanic
        /\ CASE aw.pc = "store" ->
                  \E pin_idx \in 0 .. Lanes - 1, pin_state \in BOOLEAN :
                      LET m == [ Begin(shift_register)
                                   EXCEPT !.bit_array[pin_idx + 1] = pin_state ]
                      IN  /\ shift_register' = m
                          /\ sr_op' = SrOp("update_idx", m.bit_array, pin_idx, m)
                          /\ adapter_write' =
                                 [ aw EXCEPT !.pc = "reset_counter",
                                             !.pin_idx = pin_idx,
                                             !.shifts = 0, !.preempted = 0 ]
                          /\ UNCHANGED << sreg_i, panicked >>
             [] aw.pc = "reset_counter" ->
                  /\ shift_register' =
                         [ shift_register EXCEPT !.current_shifted_bit = 0 ]
                  /\ adapter_write' =
                         [ aw EXCEPT !.pc = "enter",
                                     !.old_shifted_bit =
                                         shift_register.current_shifted_bit ]
                  /\ UNCHANGED << sr_op, sreg_i, panicked >>
             [] aw.pc = "enter" ->
                  /\ sreg_i' = interrupt_free(sreg_i)
                  /\ adapter_write' =
                         [ aw EXCEPT !.pc = "shift_out", !.saved = sreg_i ]
                  /\ UNCHANGED << shift_register, sr_op, panicked >>
             [] aw.pc = "shift_out" ->
                  LET m == shift_out(shift_register,
                                     shift_register.bit_array[n - aw.shifts],
                                     FALSE, 1)
                  IN  /\ shift_register' = m
                      /\ panicked' = m.panic
                      /\ sr_op' = [ sr_op EXCEPT !.returned = m.panic = NoPanic ]
                      /\ adapter_write' =
                             [ aw EXCEPT !.shifts = @ + 1,
                                         !.pc = IF aw.shifts + 1 = n
                                                THEN "exit" ELSE @ ]
                      /\ UNCHANGED sreg_i
             [] aw.pc = "exit" ->
                  /\ sreg_i' = aw.saved
                  /\ adapter_write' = [ aw EXCEPT !.pc = "restore" ]
                  /\ UNCHANGED << shift_register, sr_op, panicked >>
             [] aw.pc = "restore" ->
                  /\ shift_register' =
                         [ shift_register
                             EXCEPT !.current_shifted_bit = aw.old_shifted_bit,
                                    !.is_latched = FALSE ]
                  /\ adapter_write' = [ aw EXCEPT !.pc = "store" ]
                  /\ UNCHANGED << sr_op, sreg_i, panicked >>
        /\ UNCHANGED othersOfPreempt

\* An interrupt is taken and its handler calls set_bit_array(bit_array, cs)
\* on the same driver; the write is torn when it comes between two
\* shift_out calls of the adapter write.
PreemptingSetBitArray ==
    \E bit_array \in BitArrays :
        LET m == set_bit_array(shift_register, bit_array)
        IN  /\ panicked = NoPanic
            /\ sreg_i
            /\ adapter_write.preempted < MaxRuns
            /\ shift_register' = m
            /\ panicked' = m.panic
            /\ adapter_write' =
                   [ adapter_write
                       EXCEPT !.preempted = @ + 1,
                              !.torn = @ \/ adapter_write.pc = "shift_out" ]
            /\ UNCHANGED << sr_op, sreg_i, othersOfPreempt >>

NextPreempt == AdapterWriteStep \/ PreemptingSetBitArray

SpecPreempt == InitDigits /\ [][NextPreempt]_vars

(***************************************************************************)
(* SpecRenderer: HoursMinutes::display as a function of the renderer's     *)
(* fields and of the DIGITS cell, applied to every digit state, to digits  *)
(* that take every value 0..15 at every position, and to a cell that is    *)
(* free or borrowed.                                                       *)
(***************************************************************************)
\* TimeDigits whose hours and minutes digits are four different values, each
\* position taking every value 0..15.
HexTimeDigits ==
    { [ hours |-> << a, (a + 5) % 16 >>,
        minutes |-> << (a + 10) % 16, (a + 3) % 16 >>,
        seconds |-> << 0, 0 >> ] : a \in 0 .. 15 }

\* display(critical_section) on a renderer; the history keeps the array
\* handed to set_bit_array (lines 158-178) and the value of
\* new_bitwise_digit (lines 183-184).
RendererCall ==
    \E selected_digit \in DigitSelect, digits \in HexTimeDigits,
       last_digit \in HexTimeDigits, borrowed \in BOOLEAN :
        LET self == [ HoursMinutesNew EXCEPT !.selected_digit = selected_digit,
                                             !.last_digit = last_digit ]
            hm == display(self, [ ok |-> ~borrowed, digits |-> digits ])
        IN  /\ panicked = NoPanic
            /\ DIGITS' = digits
            /\ hours_minutes' = hm
            /\ panicked' = hm.shift_register.panic
            /\ hm_pushed' =
                   [ called |-> TRUE, selected_digit |-> selected_digit,
                     borrowed |-> borrowed, digits |-> digits,
                     last_digit |-> last_digit,
                     pin_states |->
                         HoursMinutesPinStates(selected_digit,
                                               hm.last_digit.hours,
                                               hm.last_digit.minutes),
                     new_bitwise_digit |-> RotateRight5(selected_digit) ]
            /\ UNCHANGED << millisVars, overflow_checks, captureVars,
                            trackerVars, driverVars, hm_log, hm_frame,
                            boardVars, loopVars, stepVars, adapter_write,
                            rtc_call >>

SpecRenderer == Init /\ [][RendererCall]_vars

(***************************************************************************)
(* SpecBcd: the BCD conversions of rtc.rs applied to every byte.           *)
(***************************************************************************)
othersOfBcd == << millisVars, overflow_checks, captureVars, trackerVars,
                  driverVars, displayVars, boardVars, loopVars, stepVars,
                  adapter_write, hm_pushed >>

\* bcd_encode(bcd_decode(x))
BcdDecodeEncode ==
    \E x \in 0 .. 255 :
        LET mid == bcd_decode(x)
            res == bcd_encode(mid)
        IN  /\ panicked = NoPanic
            /\ rtc_call' = [ op |-> "decode_encode", x |-> x, mid |-> mid,
                             res |-> res.res ]
            /\ panicked' = res.panic
            /\ UNCHANGED othersOfBcd

\* bcd_decode(bcd_encode(n))
BcdEncodeDecode ==
    \E n \in 0 .. 255 :
        LET mid == bcd_encode(n)
            res == IF mid.panic = NoPanic THEN bcd_decode(mid.res) ELSE 0
        IN  /\ panicked = NoPanic
            /\ rtc_call' = [ op |-> "encode_decode", x |-> n, mid |-> mid.res,
                             res |-> res ]
            /\ panicked' = mid.panic
            /\ UNCHANGED othersOfBcd

NextBcd == BcdDecodeEncode \/ BcdEncodeDecode

SpecBcd == Init /\ [][NextBcd]_vars

(***************************************************************************)
(* SpecGlyphIndex: read_time applied to register images in which each of   *)
(* the three time bytes takes every value 0..255, and the glyph index      *)
(* HoursMinutes::display computes from the digits for every digit state.   *)
(***************************************************************************)
\* Buffers whose seconds, minutes and hours bytes each take every value.
AnyByteBuffers ==
    { << x, (x + 85) % 256, (x + 170) % 256, 1, 0, 1, 35 >> : x \in 0 .. 255 }

\* rtc.read_time(&mut state.digits) answered with the buffer, then the index
\* `digit` of display (time_display.rs:142-145) for a digit state.
ReadTimeAnyBuffer ==
    \E time_buffer \in AnyByteBuffers, selected_digit \in DigitSelect :
        LET digits == read_time(state_digits,
                                [ ok |-> TRUE, buffer |-> time_buffer ])
        IN  /\ panicked = NoPanic
            /\ state_digits' = digits
            /\ rtc_call' =
                   [ op |-> "read_time", x |-> time_buffer[1],
                     mid |-> selected_digit,
                     res |-> SelectedDigitValue(selected_digit, digits.hours,
                                                digits.minutes) % 256 ]
            /\ UNCHANGED << millisVars, overflow_checks, panicked,
                            captureVars, trackerVars, driverVars, displayVars,
                            pc, sreg_i, pcicr, pcmsk, pcifr, pins,
                            seconds_display, snooze_button, ocie0a, edge_log,
                            loopVars, stepVars, adapter_write, hm_pushed >>

SpecGlyphIndex == Init /\ [][ReadTimeAnyBuffer]_vars

(***************************************************************************)
(* Claims on the interrupt layer and the rotary tracker.                   *)
(***************************************************************************)
\* C1 (SpecMillis): after any number of TIMER0_COMPA firings since
\* millis_init the counter, and every value millis() returned, equals
\* (firings * MILLIS_INCREMENT) mod 2^32, and no firing faults: the firing
\* at 2^32 - MILLIS_INCREMENT wraps the counter to 0.
C1_MillisCountsTicksModulo ==
    /\ panicked = NoPanic
    /\ MILLIS_COUNTER = U32Times(ticks, MILLIS_INCREMENT)
    /\ millis_read.value = U32Times(millis_read.ticks, MILLIS_INCREMENT)

\* C2 (Spec): every changed_state() call returns the flag it found and
\* leaves the flag clear; hence of the calls made since a run of the
\* pin-change handler exactly the first returns true.
C2_ChangedStateConsumesOnce ==
    /\ \A i \in 1 .. Len(cs_returns) :
           /\ cs_returns[i].ret = cs_returns[i].before
           /\ cs_returns[i].after = FALSE
    /\ irq_seen => \A i \in 1 .. Len(cs_returns) : cs_returns[i].ret = (i = 1)

\* C2 witness: the handler ran and changed_state() was then called twice,
\* returning true and then false.
C2_Witness ==
    /\ irq_seen
    /\ Len(cs_returns) >= 2
    /\ cs_returns[1].ret
    /\ ~cs_returns[2].ret

\* The last update() of the rotary tracker found the changed flag set and
\* levels that differ from the stored ones, with A # B.
C3_RotationObserved ==
    /\ re_update.called
    /\ re_update.flag
    /\ re_update.differ
    /\ rotary_encoder.state.a # rotary_encoder.state.b

\* C3 (Spec): when update() observed such a transition and the first query
\* after it is rotated_clockwise(), that call returns true and every later
\* rotated_clockwise() call before the next update() returns false.
C3_RotationReportedOnce ==
    ( /\ C3_RotationObserved
      /\ Len(re_queries) >= 1
      /\ re_queries[1].op = "rotated_clockwise" )
    => /\ re_queries[1].ret
       /\ \A i \in 2 .. Len(re_queries) :
              re_queries[i].op = "rotated_clockwise" => ~re_queries[i].ret

\* C3 witness: such an update() was followed by two rotated_clockwise()
\* calls.
C3_Witness ==
    /\ C3_RotationObserved
    /\ Len(re_queries) >= 2
    /\ re_queries[1].op = "rotated_clockwise"
    /\ re_queries[2].op = "rotated_clockwise"

(***************************************************************************)
(* Claims on the shift-register driver (SpecDriver).                       *)
(***************************************************************************)

\* C4: set_bit_array(values) on an N-lane driver performs exactly N
\* shift_out sequences whose data bits are values[N], ..., values[1] in
\* that order, and returns with bit_array equal to values.
C4_SetBitArrayShiftsReversed ==
    sr_op.op = "set_bit_array" =>
        /\ sr_op.returned
        /\ shift_register.shifted = Reverse(sr_op.values)
        /\ shift_register.bit_array = sr_op.values

\* C5: from every reachable driver state a set_bit_array call pulses the
\* latch exactly once, after its Nth shift_out.
C5_SetBitArrayLatchesOnceAtEnd ==
    sr_op.op = "set_bit_array" => shift_register.latch_at = << Lanes >>

\* C6: a single-bit adapter write update_idx(i, v) on a driver whose image
\* is all-false completes with a full N-bit re-shift whose image has lane i
\* equal to v and every other lane false, and exactly one latch pulse.
C6_AdapterWriteReshiftsImage ==
    ( /\ sr_op.op = "update_idx"
      /\ \A j \in 1 .. Lanes : j # sr_op.idx + 1 => sr_op.values[j] = LOW )
    => /\ sr_op.returned
       /\ Len(shift_register.shifted) = Lanes
       /\ shift_register.outputs = sr_op.values
       /\ shift_register.latch_at = << Lanes >>

(***************************************************************************)
(* Claims on the hours:minutes display (SpecDisplay).                      *)
(***************************************************************************)

\* C7: five consecutive HoursMinutes::display calls select each of the five
\* DigitSelect states exactly once (so after fewer than five calls the next
\* call selects a state not selected yet), and the sixth call selects the
\* same state as the first.
C7_DisplayCyclesFiveStates ==
    /\ \A i \in 1 .. Len(hm_log) : \A j \in 1 .. Len(hm_log) :
           (i < j /\ j <= 5) => hm_log[i] # hm_log[j]
    /\ Len(hm_log) >= 6 => hm_log[6] = hm_log[1]
    /\ Len(hm_log) \in 1 .. 4 =>
           \A i \in 1 .. Len(hm_log) : hours_minutes.selected_digit # hm_log[i]

(***************************************************************************)
(* Claims on the running firmware (SpecFirmware, SpecFirmwareFair).        *)
(***************************************************************************)

\* C8: in the running firmware HoursMinutes::display is invoked infinitely
\* often (hm_frame flips at every invocation, so it is TRUE again and
\* again and FALSE again and again).
C8_DisplayInvokedInfinitelyOften == ([]<>hm_frame) /\ ([]<>~hm_frame)

\* C9: every edge on a pin the init functions unmasked runs the capture
\* handler, which stores the four levels and sets the changed flag: once
\* the interrupt of such an edge has been taken, it was served by PCINT2.
C9_UnmaskedEdgeRunsCaptureHandler ==
    (edge_log.unmasked /\ edge_log.served # "pending") =>
        /\ edge_log.served = "PCINT2"
        /\ edge_log.flag
        /\ Len(edge_log.stored) = 4

\* Both init functions have run since reset.
InitsDone ==
    pc \notin { "millis_init", "rotary_encoder_init", "snooze_button_init" }

\* C10 as stated: after rotary_encoder_init and snooze_button_init the
\* unmasked pin-change bits are exactly the bits of the four watched pins
\* (rotary A, rotary B, rotary button, snooze button).
C10_UnmaskedAreFourWatchedPins ==
    InitsDone => Unmasked = { << PinBank(p), PinBit(p) >> : p \in PinNames }

\* C10 amended: after both init functions the unmasked pin-change bits are
\* exactly the bits of rotary A, the rotary button and the snooze button
\* (bank 0, bits 5, 4 and 3); the bit of rotary B is not unmasked.
C10_UnmaskedAreThreeBank0Pins ==
    InitsDone =>
        /\ Unmasked = { << PinBank(p), PinBit(p) >> : p \in { "d13", "d12", "d11" } }
        /\ << PinBank("a0"), PinBit("a0") >> \notin Unmasked

C10_Witness ==
    /\ pc = "interrupt_enable"
    /\ edge_log.served = "none"
    /\ Unmasked # { }

(***************************************************************************)
(* Claims on the trackers in the main loop (SpecLoop).                     *)
(***************************************************************************)

\* C11: if the capture handler ran since the snooze tracker's last update()
\* and captured a snooze level different from the tracker's stored level,
\* the tracker's next update() sets changed (until pressed() consumes it),
\* and the first pressed() after it reports a press when the level is
\* pressed; this also when rotary_encoder.update() runs before it.
C11_SnoozeTransitionReported ==
    (sb_update.called /\ sb_update.irq /\ sb_update.differ) =>
        /\ sb_pressed = << >> => snooze_button.changed
        /\ (Len(sb_pressed) >= 1 /\ snooze_button.state) => sb_pressed[1]

(***************************************************************************)
(* Claims on readers racing with interrupts.                               *)
(***************************************************************************)

\* C12: a millis() call never observes a torn counter: the four bytes it
\* returns are the counter as it was after a whole number of ticks, one of
\* the tick counts between its entry and its return.
C12_MillisNeverTorn ==
    millis_reader.done =>
        \E k \in millis_reader.from .. millis_read.ticks :
            millis_read.value = U32Times(k, MILLIS_INCREMENT)

\* A millis() call has returned a counter whose low byte had carried.
C12_Witness ==
    /\ millis_reader.done
    /\ millis_reader.pc = "idle"
    /\ millis_read.value = U32Times(TicksToWrap, MILLIS_INCREMENT)
    /\ millis_read.ticks = TicksToWrap

\* C13: the captured level a tracker's update() uses and the changed flag
\* it consumes with it come from one single run of the capture handler.
C13_LevelsFromOneHandlerRun ==
    (snooze_upd.done /\ snooze_upd.flag) =>
        snooze_upd.state_run = snooze_upd.flag_run

\* C14: the DIGITS value a renderer reads always holds six digits of one
\* single RTC read (or the initial digits), never hours, minutes and
\* seconds of two different reads.
C14_DigitsFromOneRead ==
    digits_seen.read =>
        digits_seen.digits \in
            { TimeDigitsDefault } \cup { ReadTimeDigits(b) : b \in DigitsBuffers }

\* The renderer has read the digits of one RTC read while the main loop
\* was storing the digits of another read.
C14_Witness ==
    /\ digits_seen.read
    /\ digits_seen.digits # TimeDigitsDefault
    /\ digits_step.pc = "write_seconds"
    /\ state_digits.hours # digits_seen.digits.hours
    /\ state_digits.minutes = digits_seen.digits.minutes

\* C15: when the RTC bus read fails the digits are left as they were and
\* published as they are, and the loop continues: the read is tried again
\* in the next iteration.  (In SpecFirmware the only digits a successful
\* read stores differ from the initial ones, so an iteration that
\* publishes the initial digits is one whose read failed.)
C15_FailedReadIsRetried ==
    [](( /\ pc = "publish_digits"
         /\ state_digits = TimeDigitsDefault
         /\ DIGITS = TimeDigitsDefault )
       => <>(pc = "read_time"))

(***************************************************************************)
(* Further claims on the rotary tracker (Spec).                            *)
(***************************************************************************)

\* C16: between two update() calls of the rotary tracker at most one query
\* reports an event: only the first query after the update can return
\* true, every later rotated_clockwise() or button() returns false.
C16_OneQueryPerUpdate ==
    \A i \in 2 .. Len(re_queries) : ~re_queries[i].ret

\* A rotation was reported, and the button() call after it returned false
\* although the captured button level is pressed.
C16_Witness ==
    /\ Len(re_queries) >= 2
    /\ re_queries[1].op = "rotated_clockwise"
    /\ re_queries[1].ret
    /\ re_queries[2].op = "button"
    /\ rotary_encoder.state.button

(***************************************************************************)
(* Further claims on the shift-register driver (SpecDriver).               *)
(***************************************************************************)

\* C17: the driver counts the shift_out calls since the last latch, pulses
\* the latch when the count reaches N and resets the count: after a
\* shift_out call either the count is in 1..N-1 and the latch was not
\* pulsed, or the latch was pulsed once and the count is 0; between
\* operations the count is in 0..N-1.
C17_ShiftOutCountsToLatch ==
    /\ shift_register.current_shifted_bit \in 0 .. Lanes - 1
    /\ sr_op.op = "shift_out" =>
           /\ sr_op.returned
           /\ \/ /\ shift_register.current_shifted_bit \in 1 .. Lanes - 1
                 /\ shift_register.latch_at = << >>
              \/ /\ shift_register.current_shifted_bit = 0
                 /\ shift_register.latch_at = << 1 >>

\* C18: shift_out(bit) drives the bus in the order serial := bit, clock
\* high (the chip clocks in bit), serial low, clock low; after it serial
\* and clock are low; the latch line is low outside latch().
C18_ShiftOutWireOrder ==
    /\ shift_register.latch_pin = LOW
    /\ sr_op.op = "shift_out" =>
           /\ shift_register.wires =
                  << << "serial", sr_op.values[1] >>, << "clock", HIGH >>,
                     << "serial", LOW >>, << "clock", LOW >> >>
           /\ shift_register.shifted = sr_op.values
           /\ shift_register.serial_input_pin = LOW
           /\ shift_register.clock_pin = LOW

\* shift_out(HIGH) has driven the wires and the chip has clocked in a HIGH.
C18_Witness ==
    /\ sr_op.op = "shift_out"
    /\ sr_op.values = << HIGH >>
    /\ shift_register.stage[1] = HIGH
    /\ Len(shift_register.wires) = 4

\* C19: whenever is_latched is true the driver's bit_array equals the
\* values on the latched outputs.
C19_LatchedImageMatchesOutputs ==
    shift_register.is_latched =>
        shift_register.bit_array = shift_register.outputs

\* C20: after a single-bit adapter write the physical outputs equal the
\* accumulated image: the image before the write with lane i replaced.
C20_AdapterWritesAccumulate ==
    sr_op.op = "update_idx" => shift_register.outputs = sr_op.values


C22_OneSelectionLaneLow ==
    hm_pushed.called =>
        \A lane \in 0 .. 4 :
            (hm_pushed.pin_states[lane + 1] = LOW)
                <=> (hm_pushed.selected_digit = 2 ^ lane)

C22_Witness ==
    /\ hm_pushed.called
    /\ hm_pushed.selected_digit = Minute1
    /\ hm_pushed.pin_states[4] = LOW
    /\ hm_pushed.pin_states[1] = HIGH
    /\ hm_pushed.pin_states[5] = HIGH

\* The segment lanes A..G of the array handed to the driver (lanes 9..15
\* carry F, G, A, B, C, D, E).
C23_SegmentLanes ==
    << hm_pushed.pin_states[12], hm_pushed.pin_states[13],
       hm_pushed.pin_states[14], hm_pushed.pin_states[15],
       hm_pushed.pin_states[16], hm_pushed.pin_states[10],
       hm_pushed.pin_states[11] >>

\* The digits the call renders: those of DIGITS, or the renderer's last
\* digits when DIGITS is borrowed.
C23_Rendered ==
    IF hm_pushed.borrowed THEN hm_pushed.last_digit ELSE hm_pushed.digits

\* C23: for digits 0..15 the segment lanes handed to the driver are the
\* glyph of the digit of the selected position (Hour1: hours tens, Hour2:
\* hours ones, Minute1: minutes tens, Minute2: minutes ones); with DP
\* selected all seven segment lanes are LOW.
C23_SegmentsOfSelectedPosition ==
    hm_pushed.called =>
        C23_SegmentLanes =
            CASE hm_pushed.selected_digit = DP -> AllLow(7)
              [] hm_pushed.selected_digit = Hour1 ->
                     SEVEN_SEGMENT_OUTPUT[C23_Rendered.hours[1] + 1]
              [] hm_pushed.selected_digit = Hour2 ->
                     SEVEN_SEGMENT_OUTPUT[C23_Rendered.hours[2] + 1]
              [] hm_pushed.selected_digit = Minute1 ->
                     SEVEN_SEGMENT_OUTPUT[C23_Rendered.minutes[1] + 1]
              [] hm_pushed.selected_digit = Minute2 ->
                     SEVEN_SEGMENT_OUTPUT[C23_Rendered.minutes[2] + 1]

C23_Witness ==
    /\ hm_pushed.called
    /\ ~hm_pushed.borrowed
    /\ hm_pushed.selected_digit = Hour2
    /\ hm_pushed.digits.hours = << 7, 12 >>
    /\ C23_SegmentLanes = << HIGH, LOW, LOW, HIGH, HIGH, HIGH, LOW >>

\* C24: a HoursMinutes::display call completes whether DIGITS is borrowed
\* or free; with DIGITS free the renderer's fallback digits become the hours
\* and minutes of DIGITS, with DIGITS borrowed they stay what they were.
C24_DisplayCompletesWithFallback ==
    hm_pushed.called =>
        /\ hours_minutes.shift_register.panic = NoPanic
        /\ hours_minutes.last_digit.hours = C23_Rendered.hours
        /\ hours_minutes.last_digit.minutes = C23_Rendered.minutes

\* The segments (1: A .. 7: G) an entry of the glyph table lights.
C26_Lit(index) ==
    { seg \in 1 .. 7 : SEVEN_SEGMENT_OUTPUT[index + 1][seg] = HIGH }

\* The conventional seven-segment shapes of 0..9.
C26_Conventional ==
    << { 1, 2, 3, 4, 5, 6 }, { 2, 3 }, { 1, 2, 4, 5, 7 }, { 1, 2, 3, 4, 7 },
       { 2, 3, 6, 7 }, { 1, 3, 4, 6, 7 }, { 1, 3, 4, 5, 6, 7 }, { 1, 2, 3 },
       { 1, 2, 3, 4, 5, 6, 7 }, { 1, 2, 3, 4, 6, 7 } >>

\* C26: for each digit 0..9 the glyph table lights exactly the segments of
\* the conventional shape of the digit, and the blank entry (index 0x10)
\* lights none; so the segment lanes the renderer pushes for a decimal digit
\* show the conventional shape.
C26_GlyphsAreConventional ==
    /\ \A d \in 0 .. 9 : C26_Lit(d) = C26_Conventional[d + 1]
    /\ C26_Lit(16) = { }
    /\ Len(SEVEN_SEGMENT_OUTPUT) = 17
    /\ (hm_pushed.called /\ hm_pushed.selected_digit = Minute2
        /\ C23_Rendered.minutes[2] <= 9) =>
           { seg \in 1 .. 7 : C23_SegmentLanes[seg] = HIGH }
               = C26_Conventional[C23_Rendered.minutes[2] + 1]

C26_Witness ==
    /\ hm_pushed.called
    /\ ~hm_pushed.borrowed
    /\ hm_pushed.selected_digit = Minute2
    /\ hm_pushed.digits.minutes[2] = 7
    /\ { seg \in 1 .. 7 : C23_SegmentLanes[seg] = HIGH } = { 1, 2, 3 }

\* C28: the digit state is one of the five one-hot values of DigitSelect,
\* and the 5-bit rotate-right of display takes each of them to one of them.
C28_SelectedDigitStaysOneHot ==
    /\ hours_minutes.selected_digit \in DigitSelect
    /\ hm_pushed.new_bitwise_digit \in DigitSelect

C28_Witness ==
    /\ hm_pushed.called
    /\ hm_pushed.selected_digit = DP
    /\ hm_pushed.new_bitwise_digit = Minute2


(***************************************************************************)
(* Claims on the BCD conversions (SpecBcd)                                 *)
(***************************************************************************)
\* C25: bcd_encode(bcd_decode(x)) = x for every byte x whose two nibbles are
\* in 0..9, and bcd_decode(bcd_encode(n)) = n for every n in 0..99.
C25_BcdRoundTrip ==
    /\ (rtc_call.op = "decode_encode"
        /\ rtc_call.x \div 16 <= 9 /\ rtc_call.x % 16 <= 9) =>
           (panicked = NoPanic /\ rtc_call.res = rtc_call.x)
    /\ (rtc_call.op = "encode_decode" /\ rtc_call.x <= 99) =>
           (panicked = NoPanic /\ rtc_call.res = rtc_call.x)

C25_Witness ==
    /\ rtc_call.op = "decode_encode"
    /\ rtc_call.x = 89
    /\ rtc_call.mid = 59
    /\ rtc_call.res = 89


(***************************************************************************)
(* Further claims on the trackers against the handler (SpecRace)           *)
(***************************************************************************)
\* C30: no run of the capture handler is lost to the load-then-store of
\* changed_state(): when a snooze update has just finished and the handler
\* ran after that update's changed_state() loaded the flag, CHANGED_STATE
\* is still set, so that a later changed_state() call returns true and its
\* caller compares the levels that run stored.
C30_HandlerRunNotLost ==
    ( /\ snooze_upd.done
      /\ snooze_upd.pc = "idle"
      /\ loop_pc = "rotary_update"
      /\ capture_run > snooze_upd.flag_run ) => CHANGED_STATE


C29_NoConflictingBorrow ==
    /\ shift_register.panic # BorrowMutError
    /\ sr_op.op = "update_idx" => sr_op.returned


(***************************************************************************)
(* Further claims on the rotary tracker (Spec)                             *)
(***************************************************************************)
\* C31: rotated_clockwise() returns true only when line A or line B differed
\* between the previous and the latest update(): a transition of the rotary
\* button alone is not reported as a rotation.
C31_ButtonAloneIsNoRotation ==
    \A i \in 1 .. Len(re_queries) :
        (re_queries[i].op = "rotated_clockwise" /\ re_queries[i].ret)
            => re_update.lines_differ


(***************************************************************************)
(* Claims on the glyph index (SpecGlyphIndex)                              *)
(***************************************************************************)
\* C32: for every buffer read from the RTC the six digits read_time stores,
\* and the index display computes from them for any digit state, are at
\* most 0x10: inside the 17-entry glyph table.
C32_GlyphIndexInTable ==
    rtc_call.op = "read_time" =>
        /\ \A i \in 1 .. 2 :
               /\ state_digits.hours[i] <= 16
               /\ state_digits.minutes[i] <= 16
               /\ state_digits.seconds[i] <= 16
               /\ state_digits.seconds[i] + 1 <= Len(SEVEN_SEGMENT_OUTPUT)
        /\ rtc_call.res <= 16
        /\ rtc_call.res + 1 <= Len(SEVEN_SEGMENT_OUTPUT)

C32_Witness ==
    /\ rtc_call.op = "read_time"
    /\ rtc_call.x = 255
    /\ state_digits.seconds = << 7, 15 >>
    /\ state_digits.hours = << 10, 9 >>
    /\ rtc_call.mid = Hour1
    /\ rtc_call.res = 10

=============================================================================
